---- MODULE Spec2Model ----
(***************************************************************************)
(* Model of scripts/review_pr.py (GenOps Guardian): the two context        *)
(* collectors, run_analysis (configuration checks, context selection,      *)
(* model call, JSON-or-fallback normalisation, risk.json, summary) and the *)
(* __main__ block (output.txt, PR comment).                                *)
(*                                                                         *)
(* Text is a sequence of atoms.  An atom is a TLA+ string standing for one *)
(* character ("{", "5", a space, a newline, ...) or for one indivisible    *)
(* run of letters (a word such as risk_score).                             *)
(***************************************************************************)
EXTENDS Integers, Sequences, FiniteSets, TLC

\* ------------------------------------------------------------------ bounds
\* longest response text enumerated exhaustively over ShortAlphabet
MaxLen == 3
\* longest list of changed files / walked files given to a collector
MaxFiles == 2

\* ------------------------------------------------------------------- atoms
Q == "\""
NL == "\n"
SP == " "
BS == "\\"
Whitespace == {SP, NL}
DigitAtoms == <<"0", "1", "2", "3", "4", "5", "6", "7", "8", "9">>
Digits == {DigitAtoms[i] : i \in 1..Len(DigitAtoms)}
DigitVal(d) == (CHOOSE i \in 1..Len(DigitAtoms) : DigitAtoms[i] = d) - 1
DigitOf(n) == DigitAtoms[n + 1]

\* the characters of each word atom (a str is iterated character by character)
WordChars(w) ==
    CASE w = "Low" -> <<"L", "o", "w">>
      [] w = "High" -> <<"H", "i", "g", "h">>
      [] w = "leak" -> <<"l", "e", "a", "k">>
      [] OTHER -> <<w>>

\* ----------------------------------------------------------- text helpers
RECURSIVE LStrip(_)
LStrip(s) == IF s # <<>> /\ Head(s) \in Whitespace THEN LStrip(Tail(s)) ELSE s

RECURSIVE RStrip(_)
RStrip(s) ==
    IF s # <<>> /\ s[Len(s)] \in Whitespace
    THEN RStrip(SubSeq(s, 1, Len(s) - 1))
    ELSE s

\* str.strip()
Strip(s) == RStrip(LStrip(s))

\* the concatenation of a sequence of texts
RECURSIVE Flatten(_)
Flatten(ss) ==
    IF Len(ss) = 0 THEN <<>>
    ELSE IF Len(ss) = 1 THEN ss[1]
    ELSE LET h == Len(ss) \div 2
         IN  Flatten(SubSeq(ss, 1, h)) \o Flatten(SubSeq(ss, h + 1, Len(ss)))

\* sep.join(parts), sep a text
Join(sep, parts) ==
    Flatten([i \in 1..Len(parts) |-> IF i = 1 THEN parts[1] ELSE sep \o parts[i]])

\* s.split(sep), sep one atom; always at least one piece
RECURSIVE SplitFrom(_, _, _)
SplitFrom(s, sep, cur) ==
    IF s = <<>> THEN <<cur>>
    ELSE IF Head(s) = sep THEN <<cur>> \o SplitFrom(Tail(s), sep, <<>>)
    ELSE SplitFrom(Tail(s), sep, Append(cur, Head(s)))

Split(s, sep) == SplitFrom(s, sep, <<>>)

\* ---------------------------------------------------------- Python values
\* One record shape for every value, so that any two values compare.
\*   t: "none" "bool" "int" "str" "list" "dict";  n: the int / bool;
\*   s: the str's atoms;  a: the list's items;  m: the dict's items in
\*   insertion order, each [k |-> key atoms, v |-> value]
PyNone == [t |-> "none", n |-> 0, s |-> <<>>, a |-> <<>>, m |-> <<>>]
PyBool(b) == [t |-> "bool", n |-> IF b THEN 1 ELSE 0, s |-> <<>>, a |-> <<>>, m |-> <<>>]
PyInt(i) == [t |-> "int", n |-> i, s |-> <<>>, a |-> <<>>, m |-> <<>>]
PyStr(x) == [t |-> "str", n |-> 0, s |-> x, a |-> <<>>, m |-> <<>>]
PyList(xs) == [t |-> "list", n |-> 0, s |-> <<>>, a |-> xs, m |-> <<>>]
PyDict(ms) == [t |-> "dict", n |-> 0, s |-> <<>>, a |-> <<>>, m |-> ms]

HasKey(d, k) == \E i \in 1..Len(d.m) : d.m[i].k = k
KeyIndex(d, k) == CHOOSE i \in 1..Len(d.m) : d.m[i].k = k
\* d[k] for a dict d that has k
GetItem(d, k) == d.m[KeyIndex(d, k)].v
\* d[k] = v: a new key goes last, an old key keeps its place
SetItem(ms, k, v) ==
    IF \E i \in 1..Len(ms) : ms[i].k = k
    THEN [i \in 1..Len(ms) |-> IF ms[i].k = k THEN [k |-> k, v |-> v] ELSE ms[i]]
    ELSE Append(ms, [k |-> k, v |-> v])

\* ------------------------------------------------------------- json.loads
\* a scan result: ok, the value, the text left after it
Fail == [ok |-> FALSE, v |-> PyNone, rest |-> <<>>]
Got(v, rest) == [ok |-> TRUE, v |-> v, rest |-> rest]

\* the number of backslashes standing directly before position i of s
BackslashRun(s, i) ==
    CHOOSE k \in 0..(i - 1) :
        /\ \A j \in 1..k : s[i - j] = BS
        /\ k = i - 1 \/ s[i - k - 1] # BS
\* position i is the second character of an escape
Escaped(s, i) == BackslashRun(s, i) % 2 = 1
\* the body of a string, after its opening quote, up to the first quote
\* that is not escaped (strict: no raw newline; the escapes \" \\ \n)
ScanString(s) ==
    LET Closes(i) == s[i] = Q /\ ~Escaped(s, i) IN
    IF ~\E i \in 1..Len(s) : Closes(i) THEN Fail
    ELSE
        LET c == CHOOSE i \in 1..Len(s) : Closes(i) /\ \A j \in 1..(i - 1) : ~Closes(j)
            bad == \E i \in 1..(c - 1) :
                       \/ s[i] = NL
                       \/ Escaped(s, i) /\ s[i] \notin {Q, BS, "n"}
            body == Flatten([i \in 1..(c - 1) |->
                       IF Escaped(s, i) THEN (IF s[i] = "n" THEN <<NL>> ELSE <<s[i]>>)
                       ELSE IF s[i] = BS THEN <<>>
                       ELSE <<s[i]>>])
        IN  IF bad THEN Fail ELSE Got(PyStr(body), SubSeq(s, c + 1, Len(s)))

\* 0 | [1-9][0-9]*
RECURSIVE ScanDigits(_, _)
ScanDigits(s, acc) ==
    IF s # <<>> /\ Head(s) \in Digits
    THEN ScanDigits(Tail(s), acc * 10 + DigitVal(Head(s)))
    ELSE Got(PyInt(acc), s)

ScanNumber(s) ==
    IF Head(s) = "0" THEN Got(PyInt(0), Tail(s)) ELSE ScanDigits(s, 0)

RECURSIVE ScanOnce(_), ScanArrayItems(_, _), ScanObjectItems(_, _)
ScanOnce(s) ==
    IF s = <<>> THEN Fail
    ELSE IF Head(s) = Q THEN ScanString(Tail(s))
    ELSE IF Head(s) = "{" THEN
        LET t == LStrip(Tail(s)) IN
        IF t # <<>> /\ Head(t) = "}" THEN Got(PyDict(<<>>), Tail(t))
        ELSE ScanObjectItems(t, <<>>)
    ELSE IF Head(s) = "[" THEN
        LET t == LStrip(Tail(s)) IN
        IF t # <<>> /\ Head(t) = "]" THEN Got(PyList(<<>>), Tail(t))
        ELSE ScanArrayItems(t, <<>>)
    ELSE IF Head(s) = "null" THEN Got(PyNone, Tail(s))
    ELSE IF Head(s) = "true" THEN Got(PyBool(TRUE), Tail(s))
    ELSE IF Head(s) = "false" THEN Got(PyBool(FALSE), Tail(s))
    ELSE IF Head(s) \in Digits THEN ScanNumber(s)
    ELSE Fail

ScanArrayItems(s, acc) ==
    LET r == ScanOnce(s)
        t == LStrip(r.rest)
    IN  IF ~r.ok \/ t = <<>> THEN Fail
        ELSE IF Head(t) = "]" THEN Got(PyList(Append(acc, r.v)), Tail(t))
        ELSE IF Head(t) = "," THEN ScanArrayItems(LStrip(Tail(t)), Append(acc, r.v))
        ELSE Fail

ScanObjectItems(s, acc) ==
    IF s = <<>> \/ Head(s) # Q THEN Fail
    ELSE
        LET k == ScanString(Tail(s))
            t == LStrip(k.rest)
        IN  IF ~k.ok \/ t = <<>> \/ Head(t) # ":" THEN Fail
            ELSE
                LET r == ScanOnce(LStrip(Tail(t)))
                    u == LStrip(r.rest)
                    ms == SetItem(acc, k.v.s, r.v)
                IN  IF ~r.ok \/ u = <<>> THEN Fail
                    ELSE IF Head(u) = "}" THEN Got(PyDict(ms), Tail(u))
                    ELSE IF Head(u) = "," THEN ScanObjectItems(LStrip(Tail(u)), ms)
                    ELSE Fail

\* json.loads(s): r.ok is FALSE where json.loads raises
Loads(s) ==
    LET r == ScanOnce(LStrip(s)) IN
    IF r.ok /\ LStrip(r.rest) = <<>> THEN Got(r.v, <<>>) ELSE Fail

\* -------------------------------------------------------------- json.dump
JsonIndent == 2

RECURSIVE Spaces(_)
Spaces(n) == IF n = 0 THEN <<>> ELSE <<SP>> \o Spaces(n - 1)
NewlineIndent(lvl) == <<NL>> \o Spaces(JsonIndent * lvl)

RECURSIVE DigitsOf(_)
DigitsOf(n) == IF n < 10 THEN <<DigitOf(n)>> ELSE Append(DigitsOf(n \div 10), DigitOf(n % 10))

Escape(s) ==
    Flatten([i \in 1..Len(s) |->
        IF s[i] = Q THEN <<BS, Q>>
        ELSE IF s[i] = NL THEN <<BS, "n">>
        ELSE IF s[i] = BS THEN <<BS, BS>>
        ELSE <<s[i]>>])

EncodeStr(s) == <<Q>> \o Escape(s) \o <<Q>>

\* json.dump(v, f, indent=2) at nesting level lvl
RECURSIVE Dump(_, _)
Dump(v, lvl) ==
    CASE v.t = "none" -> <<"null">>
      [] v.t = "bool" -> IF v.n = 1 THEN <<"true">> ELSE <<"false">>
      [] v.t = "int" -> DigitsOf(v.n)
      [] v.t = "str" -> EncodeStr(v.s)
      [] v.t = "list" ->
            IF v.a = <<>> THEN <<"[", "]">>
            ELSE <<"[">> \o NewlineIndent(lvl + 1)
                 \o Join(<<",">> \o NewlineIndent(lvl + 1),
                         [i \in 1..Len(v.a) |-> Dump(v.a[i], lvl + 1)])
                 \o NewlineIndent(lvl) \o <<"]">>
      [] v.t = "dict" ->
            IF v.m = <<>> THEN <<"{", "}">>
            ELSE <<"{">> \o NewlineIndent(lvl + 1)
                 \o Join(<<",">> \o NewlineIndent(lvl + 1),
                         [i \in 1..Len(v.m) |->
                            EncodeStr(v.m[i].k) \o <<":", SP>> \o Dump(v.m[i].v, lvl + 1)])
                 \o NewlineIndent(lvl) \o <<"}">>

\* ---------------------------------------------------------- Python str()
RECURSIVE Repr(_)
Repr(v) ==
    CASE v.t = "none" -> <<"None">>
      [] v.t = "bool" -> IF v.n = 1 THEN <<"True">> ELSE <<"False">>
      [] v.t = "int" -> DigitsOf(v.n)
      [] v.t = "str" ->
            <<"'">> \o Flatten([i \in 1..Len(v.s) |->
                         IF v.s[i] = NL THEN <<BS, "n">>
                         ELSE IF v.s[i] = BS THEN <<BS, BS>>
                         ELSE <<v.s[i]>>]) \o <<"'">>
      [] v.t = "list" ->
            <<"[">> \o Join(<<",", SP>>, [i \in 1..Len(v.a) |-> Repr(v.a[i])]) \o <<"]">>
      [] v.t = "dict" ->
            <<"{">> \o Join(<<",", SP>>,
                            [i \in 1..Len(v.m) |->
                               Repr(PyStr(v.m[i].k)) \o <<":", SP>> \o Repr(v.m[i].v)])
            \o <<"}">>

\* what an f-string puts for {v}
Str(v) == IF v.t = "str" THEN v.s ELSE Repr(v)

\* --------------------------------------------------------------- collectors
\* The world a collector reads:
\*   files     repo: the file names os.walk yields, in walk order
\*             pr:   the paths git diff --name-only lists
\*   exists, readable, diffOk   per path: os.path.exists, open/read succeeds,
\*             git diff -- path succeeds
\*   listOk, logOk, gdiffOk     the name-only listing, git log, the repo
\*             mode git diff HEAD~5 HEAD succeed
\* A path is a text of two atoms, stem and extension.
Paths == {<<"ci", ".yml">>, <<"app", ".json">>, <<"main", ".py">>}
ConfigSuffixes == {".yml", ".yaml", ".json"}
EndsWith(name, suffixes) == name # <<>> /\ name[Len(name)] \in suffixes

FileContent(path) == <<"content of ">> \o path \o <<NL>>
GitDiffText(path) == <<"diff --git ">> \o path \o <<NL>>
GitLogText == <<"c0ffee fix pipeline", NL>>
GitError == <<"Command returned non-zero exit status 128.">>
\* stdout of git diff --name-only: one path per line
NameOnlyOutput(files) == Flatten([i \in 1..Len(files) |-> files[i] \o <<NL>>])

\* context_parts of collect_repo_context at its return
RepoFileParts(w) ==
    Flatten([i \in 1..Len(w.files) |->
        IF EndsWith(w.files[i], ConfigSuffixes) /\ w.readable[w.files[i]]
        THEN << <<"### File: ">> \o w.files[i] \o <<NL>> \o FileContent(w.files[i]) >>
        ELSE << >>])

RepoContextParts(w) ==
    RepoFileParts(w)
    \o (IF w.logOk
        THEN << <<"### Recent Commits", NL>> \o GitLogText >>
        ELSE << <<"[Error collecting git log: ">> \o GitError \o <<"]">> >>)
    \o (IF w.gdiffOk
        THEN << <<"### Recent Changes (diff)", NL>> \o GitDiffText(<<"HEAD~5", "HEAD">>) >>
        ELSE << <<"[Error collecting git diff: ">> \o GitError \o <<"]">> >>)

collect_repo_context(w) == Join(<<NL, NL>>, RepoContextParts(w))

\* mutant: a read error skips the rest of the pass (no diff for that file)
PrFileParts_SkipDiff(w, file_path) ==
    IF Strip(file_path) = <<>> THEN << >>
    ELSE IF w.exists[file_path] /\ ~w.readable[file_path]
    THEN << <<"[Error reading file: ">> \o file_path \o <<"]">> >>
    ELSE (IF w.exists[file_path]
          THEN << <<"### File: ">> \o file_path \o <<NL>> \o FileContent(file_path) >>
          ELSE << >>)
         \o (IF w.diffOk[file_path]
             THEN << <<"### Diff for ">> \o file_path \o <<NL>> \o GitDiffText(file_path) >>
             ELSE << <<"[Error getting diff for: ">> \o file_path \o <<"]">> >>)

\* the parts one changed file adds (one pass of the for loop)
PrFileParts(w, file_path) ==
    IF Strip(file_path) = <<>> THEN << >>
    ELSE (IF w.exists[file_path]
          THEN (IF w.readable[file_path]
                THEN << <<"### File: ">> \o file_path \o <<NL>> \o FileContent(file_path) >>
                ELSE << <<"[Error reading file: ">> \o file_path \o <<"]">> >>)
          ELSE << >>)
         \o (IF w.diffOk[file_path]
             THEN << <<"### Diff for ">> \o file_path \o <<NL>> \o GitDiffText(file_path) >>
             ELSE << <<"[Error getting diff for: ">> \o file_path \o <<"]">> >>)

\* mutant: the listing is split without being stripped first
PrContextParts_NoStrip(w) ==
    LET changed_files == Split(NameOnlyOutput(w.files), NL)
        marker == <<"[Error collecting PR context: ">> \o GitError \o <<"]">>
    IN  IF ~w.listOk THEN <<marker>>
        ELSE << <<"### Changed Files", NL>> \o Join(<<NL>>, changed_files) >>
             \o Flatten([i \in 1..Len(changed_files) |-> PrFileParts(w, changed_files[i])])
             \o (IF w.logOk THEN << <<"### PR Commits", NL>> \o GitLogText >> ELSE <<marker>>)

\* context_parts of collect_pr_context at its return
PrContextParts(w) ==
    LET changed_files == Split(Strip(NameOnlyOutput(w.files)), NL)
        marker == <<"[Error collecting PR context: ">> \o GitError \o <<"]">>
    IN  IF ~w.listOk THEN <<marker>>
        ELSE << <<"### Changed Files", NL>> \o Join(<<NL>>, changed_files) >>
             \o Flatten([i \in 1..Len(changed_files) |-> PrFileParts(w, changed_files[i])])
             \o (IF w.logOk THEN << <<"### PR Commits", NL>> \o GitLogText >> ELSE <<marker>>)

collect_pr_context(w) == Join(<<NL, NL>>, PrContextParts(w))

RECURSIVE SeqsUpTo(_, _)
SeqsUpTo(S, n) ==
    IF n = 0 THEN {<<>>}
    ELSE LET shorter == SeqsUpTo(S, n - 1)
         IN  shorter \cup {Append(q, e) : q \in {r \in shorter : Len(r) = n - 1}, e \in S}

NoDup(q) == \A i, j \in 1..Len(q) : i # j => q[i] # q[j]
AllTrue == [p \in Paths |-> TRUE]

\* os.walk may yield the same file name in several directories
RepoWorlds ==
    [files : SeqsUpTo(Paths, MaxFiles), exists : {AllTrue}, readable : [Paths -> BOOLEAN],
     diffOk : {AllTrue}, listOk : {TRUE}, logOk : BOOLEAN, gdiffOk : BOOLEAN]

\* git lists every changed path once
PrWorlds ==
    [files : {q \in SeqsUpTo(Paths, MaxFiles) : NoDup(q)}, exists : [Paths -> BOOLEAN],
     readable : [Paths -> BOOLEAN], diffOk : [Paths -> BOOLEAN], listOk : BOOLEAN,
     logOk : BOOLEAN, gdiffOk : {TRUE}]

\* ----------------------------------------------------------------- inputs
\* an environment variable: unset, set to the empty string, or set
EnvUnset == [set |-> FALSE, val |-> <<>>]
EnvSet(text) == [set |-> TRUE, val |-> text]
\* Python truthiness of os.getenv(...): None and "" are falsy
Truthy(e) == e.set /\ e.val # <<>>
SecretValues == {EnvUnset, EnvSet(<<>>), EnvSet(<<"secret">>)}
ShaValues == {EnvUnset, EnvSet(<<>>), EnvSet(<<"c0ffee">>)}
RepoNameValues == {EnvUnset, EnvSet(<<>>), EnvSet(<<"owner/repo">>)}
PrNumberValues == {EnvUnset, EnvSet(<<>>), EnvSet(<<"1", "5">>), EnvSet(<<"main">>)}
\* int(text) succeeds
IsInt(text) == Strip(text) # <<>> /\ \A i \in 1..Len(Strip(text)) : Strip(text)[i] \in Digits

Modes == {"demo", "real", "pr", "pr-review"}

\* the worlds a whole run collects from
OneFile == << <<"ci", ".yml">> >>
TwoFiles == << <<"main", ".py">>, <<"ci", ".yml">> >>
RunRepoWorlds ==
    {w \in RepoWorlds : w.files \in {OneFile, TwoFiles} /\ w.readable = AllTrue /\ w.logOk}
RunPrWorlds ==
    {w \in PrWorlds : /\ w.files = TwoFiles /\ w.exists = AllTrue /\ w.readable = AllTrue
                      /\ w.diffOk = AllTrue /\ w.logOk}

\* model responses: every text of at most MaxLen atoms over ShortAlphabet,
\* and longer texts built from records
ShortAlphabet == {"{", "}", "[", "]", Q, SP, "5"}
ShortResponses == SeqsUpTo(ShortAlphabet, MaxLen)

Item(k, v) == [k |-> <<k>>, v |-> v]
GoodRecord ==
    PyDict(<<Item("risk_score", PyInt(15)), Item("risk_level", PyStr(<<"Low">>)),
             Item("issues", PyList(<<PyStr(<<"leak">>), PyStr(<<"slow", SP, "build">>)>>)),
             Item("analysis_text", PyStr(<<"fine", NL, Q, "ok", Q>>))>>)
WithItem(d, k, v) == PyDict(SetItem(d.m, <<k>>, v))
Without(d, k) == PyDict(SelectSeq(d.m, LAMBDA it : it.k # <<k>>))
RecordValues ==
    { GoodRecord,
      WithItem(WithItem(GoodRecord, "risk_score", PyInt(150)), "risk_level", PyStr(<<"Critical">>)),
      WithItem(GoodRecord, "risk_score", PyStr(<<"High">>)),
      WithItem(GoodRecord, "issues", PyList(<<>>)),
      WithItem(GoodRecord, "issues", PyStr(<<"Low">>)),
      WithItem(GoodRecord, "issues", PyInt(1)),
      WithItem(GoodRecord, "issues", PyNone),
      WithItem(GoodRecord, "issues", PyDict(<<Item("leak", PyBool(TRUE))>>)),
      WithItem(GoodRecord, "analysis_text", PyList(<<PyInt(5)>>)),
      WithItem(GoodRecord, "confidence", PyInt(9)),
      Without(GoodRecord, "risk_score"),
      Without(GoodRecord, "risk_level"),
      Without(GoodRecord, "issues"),
      Without(GoodRecord, "analysis_text"),
      PyList(<<GoodRecord>>),
      PyStr(<<"risk_score">>) }
\* the same members written on one line, risk_score given twice
OneLine ==
    <<"{", Q, "risk_score", Q, ":", "5", ",", Q, "risk_level", Q, ":", Q, "High", Q, ",",
      Q, "issues", Q, ":", "[", "]", ",", Q, "analysis_text", Q, ":", Q, Q, ",",
      Q, "risk_score", Q, ":", "9", "5", "}">>
LongResponses ==
    {Dump(v, 0) : v \in RecordValues}
    \cup {<<SP, NL>> \o Dump(v, 0) \o <<NL>> : v \in RecordValues}
    \cup {<<"~~~json", NL>> \o Dump(GoodRecord, 0) \o <<NL, "~~~">>}
    \cup {<<"Sure", SP>> \o Dump(GoodRecord, 0)}
    \cup {SubSeq(Dump(GoodRecord, 0), 1, Len(Dump(GoodRecord, 0)) - 1)}
    \cup {OneLine, <<SP>> \o OneLine, <<"not json at all">>, <<"0", "5">>, <<NL, "Sure", NL>>,
          <<"null">>, <<SP, "true">>, <<"false", "5">>, <<"[", "1", ",", "]">>, <<Q, "a", BS, "n", BS, Q, BS, BS, Q>>, <<Q, BS, "x", Q>>}
Responses == ShortResponses \cup LongResponses

\* ------------------------------------------------------------------ state
VARIABLES
    pc,          \* where the run is
    mode,        \* args.mode
    api_key, base_sha, head_sha,    \* os.getenv results in run_analysis
    context,     \* the context blob
    prompt,      \* the prompt given to the model call
    calls,       \* number of client.responses.create calls issued
    response,    \* response.output_text
    data,        \* the normalised record
    riskJson,    \* analysis_results/risk.json as written by this run
    result,      \* the summary run_analysis returned
    outputTxt,   \* analysis_results/output.txt as written by this run
    pr_number, token, repo_name,    \* os.getenv results when publishing
    comments,    \* messages given to pr.create_issue_comment
    posted,      \* messages the hosting API accepted
    printed,     \* lines printed, in order
    error,       \* the exception that ended the run
    cKind, cWorld, cParts, cBlob    \* a collector called on its own

vars == <<pc, mode, api_key, base_sha, head_sha, context, prompt, calls, response, data,
          riskJson, result, outputTxt, pr_number, token, repo_name, comments, posted,
          printed, error, cKind, cWorld, cParts, cBlob>>

\* a text that may be absent (a local not yet assigned, a file not written)
Absent == [has |-> FALSE, text |-> <<>>]
Some(text) == [has |-> TRUE, text |-> text]
NoData == [t |-> "unset", n |-> 0, s |-> <<>>, a |-> <<>>, m |-> <<>>]
NoWorld ==
    [files |-> <<>>, exists |-> AllTrue, readable |-> AllTrue, diffOk |-> AllTrue,
     listOk |-> TRUE, logOk |-> TRUE, gdiffOk |-> TRUE]

collectorVars == <<cKind, cWorld, cParts, cBlob>>
envVars == <<api_key, base_sha, head_sha>>
publishVars == <<pr_number, token, repo_name, comments, posted>>
outputVars == <<response, data, riskJson, result, outputTxt>>

Init ==
    /\ pc = "start"
    /\ mode \in Modes
    /\ api_key = EnvUnset /\ base_sha = EnvUnset /\ head_sha = EnvUnset
    /\ context = Absent /\ prompt = Absent
    /\ calls = 0
    /\ response = Absent /\ data = NoData
    /\ riskJson = Absent /\ result = Absent /\ outputTxt = Absent
    /\ pr_number = EnvUnset /\ token = EnvUnset /\ repo_name = EnvUnset
    /\ comments = <<>> /\ posted = <<>> /\ printed = <<>>
    /\ error = "none"
    /\ cKind = "none" /\ cWorld = NoWorld /\ cParts = <<>> /\ cBlob = <<>>


\* ------------------------------------------------------------ run_analysis
DemoContext == <<"This is a simulated CI/CD pipeline log with no real data.">>

BuildPrompt(ctx) ==
    <<NL, "    You are GenOps Guardian ... output a JSON object with: ... ---", NL, "    ">>
    \o ctx \o <<NL, "    ">>

FallbackRecord(output_text) ==
    PyDict(<<Item("risk_score", PyInt(50)), Item("risk_level", PyStr(<<"Medium">>)),
             Item("issues", PyList(<<PyStr(<<"AI returned unstructured output">>)>>)),
             Item("analysis_text", PyStr(output_text))>>)

\* mutant: the fallback keeps the trimmed text
NormalizeResponse_Stripped(output_text) ==
    LET r == Loads(Strip(output_text)) IN
    IF r.ok THEN r.v ELSE FallbackRecord(Strip(output_text))

\* mutant: a parsed risk_score above 100 is clamped to 100
NormalizeResponse_Clamped(output_text) ==
    LET r == Loads(Strip(output_text)) IN
    IF ~r.ok THEN FallbackRecord(output_text)
    ELSE IF /\ r.v.t = "dict" /\ HasKey(r.v, <<"risk_score">>)
            /\ GetItem(r.v, <<"risk_score">>).t = "int"
            /\ GetItem(r.v, <<"risk_score">>).n > 100
    THEN PyDict(SetItem(r.v.m, <<"risk_score">>, PyInt(100)))
    ELSE r.v

\* try: json.loads(output_text.strip())  except Exception: the fallback
NormalizeResponse(output_text) ==
    LET r == Loads(Strip(output_text)) IN
    IF r.ok THEN r.v ELSE FallbackRecord(output_text)

\* data.get(k, default)
GetOr(d, k, default) == IF HasKey(d, <<k>>) THEN GetItem(d, <<k>>) ELSE default

\* iter(v) raises TypeError
NotIterable(v) == v.t \in {"none", "bool", "int"}
\* the items "for i in v" yields
IterItems(v) ==
    CASE v.t = "list" -> v.a
      [] v.t = "dict" -> [i \in 1..Len(v.m) |-> PyStr(v.m[i].k)]
      [] v.t = "str" ->
            LET chars == Flatten([i \in 1..Len(v.s) |-> WordChars(v.s[i])])
            IN  [i \in 1..Len(chars) |-> PyStr(<<chars[i]>>)]
      [] OTHER -> <<>>

\* building the summary raises (TypeError: data is no dict, or issues cannot
\* be iterated; KeyError: risk_score or risk_level is missing)
SummaryRaises(d) ==
    \/ d.t # "dict"
    \/ ~HasKey(d, <<"risk_score">>)
    \/ ~HasKey(d, <<"risk_level">>)
    \/ NotIterable(GetOr(d, "issues", PyList(<<>>)))

SummaryError(d) ==
    IF d.t = "dict" /\ (~HasKey(d, <<"risk_score">>) \/ ~HasKey(d, <<"risk_level">>))
    THEN "KeyError" ELSE "TypeError"

SummaryText(d) ==
    LET items == IterItems(GetOr(d, "issues", PyList(<<>>))) IN
    <<"**Risk Score:** ">> \o Str(GetItem(d, <<"risk_score">>))
    \o <<" (">> \o Str(GetItem(d, <<"risk_level">>)) \o <<")", NL, NL>>
    \o <<"**Detected Issues:**", NL>>
    \o Join(<<NL>>, [i \in 1..Len(items) |-> <<"- ">> \o Str(items[i])])
    \o <<NL, NL, "**AI Analysis:**", NL>> \o Str(GetOr(d, "analysis_text", PyStr(<<>>)))

\* mutant: only an unset key is refused, an empty one is accepted
CheckApiKey_NoneOnly ==
    /\ pc = "start"
    /\ printed' = Append(printed, <<"Running GenOps Guardian...">>)
    /\ \E k \in SecretValues :
        /\ api_key' = k
        /\ IF ~k.set
           THEN pc' = "failed" /\ error' = "ValueError: GENOPS_API_KEY"
           ELSE pc' = "select" /\ error' = error
    /\ UNCHANGED <<mode, base_sha, head_sha, context, prompt, calls, outputVars,
                   publishVars, collectorVars>>

\* __main__ prints the banner and calls run_analysis, which reads the key
CheckApiKey ==
    /\ pc = "start"
    /\ printed' = Append(printed, <<"Running GenOps Guardian...">>)
    /\ \E k \in SecretValues :
        /\ api_key' = k
        /\ IF ~Truthy(k)
           THEN pc' = "failed" /\ error' = "ValueError: GENOPS_API_KEY"
           ELSE pc' = "select" /\ error' = error
    /\ UNCHANGED <<mode, base_sha, head_sha, context, prompt, calls, outputVars,
                   publishVars, collectorVars>>

SelectDemo ==
    /\ pc = "select" /\ mode = "demo"
    /\ context' = Some(DemoContext)
    /\ pc' = "call"
    /\ UNCHANGED <<mode, envVars, prompt, calls, outputVars, publishVars, printed, error,
                   collectorVars>>

SelectReal ==
    /\ pc = "select" /\ mode = "real"
    /\ \E w \in RunRepoWorlds : context' = Some(collect_repo_context(w))
    /\ pc' = "call"
    /\ UNCHANGED <<mode, envVars, prompt, calls, outputVars, publishVars, printed, error,
                   collectorVars>>

SelectPr ==
    /\ pc = "select" /\ mode = "pr"
    /\ \E b \in ShaValues, h \in ShaValues :
        /\ base_sha' = b /\ head_sha' = h
        /\ IF ~Truthy(b) \/ ~Truthy(h)
           THEN /\ pc' = "failed" /\ error' = "ValueError: BASE_SHA and HEAD_SHA"
                /\ context' = context
           ELSE /\ pc' = "call" /\ error' = error
                /\ \E w \in RunPrWorlds : context' = Some(collect_pr_context(w))
    /\ UNCHANGED <<mode, api_key, prompt, calls, outputVars, publishVars, printed,
                   collectorVars>>

SelectInvalid ==
    /\ pc = "select" /\ mode \notin {"demo", "real", "pr"}
    /\ pc' = "failed" /\ error' = "ValueError: Mode"
    /\ UNCHANGED <<mode, envVars, context, prompt, calls, outputVars, publishVars, printed,
                   collectorVars>>

\* client.responses.create returns
CallReturns ==
    /\ pc = "call"
    /\ prompt' = Some(BuildPrompt(context.text))
    /\ calls' = calls + 1
    /\ \E r \in Responses : response' = Some(r)
    /\ pc' = "normalize"
    /\ UNCHANGED <<mode, envVars, context, data, riskJson, result, outputTxt, publishVars,
                   printed, error, collectorVars>>

\* mutant: a failed call is issued once more before the error propagates
CallRaises_Retry ==
    /\ pc = "call"
    /\ prompt' = Some(BuildPrompt(context.text))
    /\ calls' = calls + 1
    /\ IF calls = 0
       THEN pc' = "call" /\ error' = error
       ELSE pc' = "failed" /\ error' = "APIError"
    /\ UNCHANGED <<mode, envVars, context, outputVars, publishVars, printed, collectorVars>>

\* client.responses.create raises (transport, authentication)
CallRaises ==
    /\ pc = "call"
    /\ prompt' = Some(BuildPrompt(context.text))
    /\ calls' = calls + 1
    /\ pc' = "failed" /\ error' = "APIError"
    /\ UNCHANGED <<mode, envVars, context, outputVars, publishVars, printed, collectorVars>>

Normalize ==
    /\ pc = "normalize"
    /\ data' = NormalizeResponse(response.text)
    /\ pc' = "save"
    /\ UNCHANGED <<mode, envVars, context, prompt, calls, response, riskJson, result,
                   outputTxt, publishVars, printed, error, collectorVars>>

SaveRisk ==
    /\ pc = "save"
    /\ riskJson' = Some(Dump(data, 0))
    /\ pc' = "summary"
    /\ UNCHANGED <<mode, envVars, context, prompt, calls, response, data, result, outputTxt,
                   publishVars, printed, error, collectorVars>>

BuildSummary ==
    /\ pc = "summary"
    /\ IF SummaryRaises(data)
       THEN pc' = "failed" /\ error' = SummaryError(data) /\ result' = result
       ELSE pc' = "returned" /\ error' = error /\ result' = Some(SummaryText(data))
    /\ UNCHANGED <<mode, envVars, context, prompt, calls, response, data, riskJson,
                   outputTxt, publishVars, printed, collectorVars>>

\* ---------------------------------------------------------------- __main__
\* mutant: the comment step follows in every mode
WriteOutput_AlwaysComment ==
    /\ pc = "returned"
    /\ printed' = printed \o << <<NL, "Analysis Result:", NL>>, result.text >>
    /\ outputTxt' = Some(result.text)
    /\ pc' = "comment"
    /\ UNCHANGED <<mode, envVars, context, prompt, calls, response, data, riskJson, result,
                   publishVars, error, collectorVars>>

WriteOutput ==
    /\ pc = "returned"
    /\ printed' = printed \o << <<NL, "Analysis Result:", NL>>, result.text >>
    /\ outputTxt' = Some(result.text)
    /\ pc' = IF mode = "pr" THEN "comment" ELSE "done"
    /\ UNCHANGED <<mode, envVars, context, prompt, calls, response, data, riskJson, result,
                   publishVars, error, collectorVars>>

ReadPrNumber ==
    /\ pc = "comment"
    /\ \E n \in PrNumberValues :
        /\ pr_number' = n
        /\ pc' = IF Truthy(n) THEN "post" ELSE "done"
    /\ UNCHANGED <<mode, envVars, context, prompt, calls, outputVars, token, repo_name,
                   comments, posted, printed, error, collectorVars>>

\* post_pr_comment(pr_number, result); lookupOk: Github, get_repo and get_pull
\* succeed; commentOk: create_issue_comment succeeds
post_pr_comment ==
    /\ pc = "post"
    /\ \E t \in SecretValues, r \in RepoNameValues, lookupOk \in BOOLEAN, commentOk \in BOOLEAN :
        /\ token' = t /\ repo_name' = r
        /\ IF ~Truthy(t) \/ ~Truthy(r)
           THEN /\ printed' = Append(printed, <<"[Warning] Missing GITHUB_TOKEN or GITHUB_REPOSITORY, skipping PR comment.">>)
                /\ UNCHANGED <<comments, posted>>
           ELSE IF ~lookupOk \/ ~IsInt(pr_number.val)
           THEN /\ printed' = Append(printed, <<"[Error posting PR comment: ", "]">>)
                /\ UNCHANGED <<comments, posted>>
           ELSE IF ~commentOk
           THEN /\ comments' = Append(comments, result.text)
                /\ printed' = Append(printed, <<"[Error posting PR comment: ", "]">>)
                /\ UNCHANGED posted
           ELSE /\ comments' = Append(comments, result.text)
                /\ posted' = Append(posted, result.text)
                /\ printed' = Append(printed, <<"Comment posted to PR #">> \o pr_number.val)
    /\ pc' = "done"
    /\ UNCHANGED <<mode, envVars, context, prompt, calls, outputVars, pr_number, error,
                   collectorVars>>

Next ==
    \/ CheckApiKey
    \/ SelectDemo
    \/ SelectReal
    \/ SelectPr
    \/ SelectInvalid
    \/ CallReturns
    \/ CallRaises
    \/ Normalize
    \/ SaveRisk
    \/ BuildSummary
    \/ WriteOutput
    \/ ReadPrNumber
    \/ post_pr_comment

Spec == Init /\ [][Next]_vars

\* ------------------------------------------- the collectors on their own
runVars == <<pc, mode, api_key, base_sha, head_sha, context, prompt, calls, response, data,
             riskJson, result, outputTxt, pr_number, token, repo_name, comments, posted,
             printed, error>>

InitCollect ==
    /\ pc = "collector" /\ mode = "none"
    /\ api_key = EnvUnset /\ base_sha = EnvUnset /\ head_sha = EnvUnset
    /\ context = Absent /\ prompt = Absent
    /\ calls = 0
    /\ response = Absent /\ data = NoData
    /\ riskJson = Absent /\ result = Absent /\ outputTxt = Absent
    /\ pr_number = EnvUnset /\ token = EnvUnset /\ repo_name = EnvUnset
    /\ comments = <<>> /\ posted = <<>> /\ printed = <<>>
    /\ error = "none"
    /\ cKind = "none" /\ cParts = <<>> /\ cBlob = <<>>
    /\ cWorld \in RepoWorlds \cup PrWorlds

CollectRepo ==
    /\ cKind = "none" /\ cWorld \in RepoWorlds
    /\ cKind' = "repo"
    /\ cParts' = RepoContextParts(cWorld)
    /\ cBlob' = collect_repo_context(cWorld)
    /\ UNCHANGED <<cWorld, runVars>>

CollectPr ==
    /\ cKind = "none" /\ cWorld \in PrWorlds
    /\ cKind' = "pr"
    /\ cParts' = PrContextParts(cWorld)
    /\ cBlob' = collect_pr_context(cWorld)
    /\ UNCHANGED <<cWorld, runVars>>

NextCollect == CollectRepo \/ CollectPr

SpecCollect == InitCollect /\ [][NextCollect]_vars

\* =================================================================== claims
RequiredKeys == {<<"risk_score">>, <<"risk_level">>, <<"issues">>, <<"analysis_text">>}
IsFullRecord(v) == v.t = "dict" /\ \A k \in RequiredKeys : \E i \in 1..Len(v.m) : v.m[i].k = k
Normalized == pc \notin {"start", "select", "call", "normalize", "collector"} /\ response.has
ReturnedStages == {"returned", "comment", "post", "done"}
ValidJson(text) == Loads(Strip(text)).ok

\* C1: once the model call has returned, the run never fails whatever the
\* response text is: it goes on to write risk.json and to return a summary
\* built from a record holding risk_score, risk_level, issues, analysis_text.
C1_NeverFailsOnResponseContent ==
    response.has =>
        /\ pc # "failed" /\ error = "none"
        /\ pc \in ReturnedStages => riskJson.has /\ result.has /\ IsFullRecord(data)

\* the sentinel record for a raw text, written out field by field
SentinelFor(raw) ==
    [t |-> "dict", n |-> 0, s |-> <<>>, a |-> <<>>,
     m |-> << [k |-> <<"risk_score">>, v |-> PyInt(50)],
              [k |-> <<"risk_level">>, v |-> PyStr(<<"Medium">>)],
              [k |-> <<"issues">>,
               v |-> PyList(<< PyStr(<<"AI returned unstructured output">>) >>)],
              [k |-> <<"analysis_text">>, v |-> PyStr(raw)] >>]
SentinelSummary(raw) ==
    <<"**Risk Score:** ", "5", "0", " (", "Medium", ")", NL, NL, "**Detected Issues:**", NL,
      "- ", "AI returned unstructured output", NL, NL, "**AI Analysis:**", NL>> \o raw
\* texts that are no JSON whatever the parser: empty after trimming, or
\* starting with something no JSON value starts with
PlainlyNotJson(text) ==
    \/ Strip(text) = <<>>
    \/ Head(Strip(text)) \in {"Sure", "}", "]", "~~~json", "not json at all"}

FullRecordValues == {v \in RecordValues : IsFullRecord(v)}
OutOfRangeRecord ==
    WithItem(WithItem(GoodRecord, "risk_score", PyInt(150)), "risk_level", PyStr(<<"Critical">>))
OneLineRecord ==
    [t |-> "dict", n |-> 0, s |-> <<>>, a |-> <<>>,
     m |-> << [k |-> <<"risk_score">>, v |-> PyInt(95)],
              [k |-> <<"risk_level">>, v |-> PyStr(<<"High">>)],
              [k |-> <<"issues">>, v |-> PyList(<<>>)],
              [k |-> <<"analysis_text">>, v |-> PyStr(<<>>)] >>]

\* response texts whose record is known from how the text was built
KnownParses ==
    {[text |-> Dump(v, 0), v |-> v] : v \in FullRecordValues}
    \cup {[text |-> <<SP, NL>> \o Dump(v, 0) \o <<NL>>, v |-> v] : v \in FullRecordValues}
    \cup {[text |-> OneLine, v |-> OneLineRecord], [text |-> <<SP>> \o OneLine, v |-> OneLineRecord]}

\* C3: for a response that parses as a JSON object with the four fields the
\* normalised record is the parsed object itself: nothing is replaced,
\* clamped or range-checked and the fallback record is not used.
C3_ParsedRecordVerbatim ==
    Normalized =>
        /\ \A kp \in KnownParses : response.text = kp.text => data = kp.v
        /\ LET r == Loads(Strip(response.text)) IN
           r.ok /\ IsFullRecord(r.v) =>
              /\ data = r.v
              /\ data # SentinelFor(response.text)
              /\ riskJson.has => Loads(riskJson.text) = Got(r.v, <<>>)

\* C3 witness: a record outside 0-100 and outside Low/Medium/High was kept
C3_Witness ==
    /\ pc = "done" /\ response.has /\ response.text = Dump(OutOfRangeRecord, 0)
    /\ data = OutOfRangeRecord /\ riskJson.has

ConfigErrors ==
    {"ValueError: GENOPS_API_KEY", "ValueError: BASE_SHA and HEAD_SHA", "ValueError: Mode"}
NonEmpty(e) == e.set /\ e.val # <<>>
NothingDone ==
    /\ calls = 0 /\ ~prompt.has /\ ~response.has
    /\ ~context.has
    /\ ~riskJson.has /\ ~outputTxt.has
    /\ comments = <<>> /\ posted = <<>>

\* C4: a missing or empty GENOPS_API_KEY, a mode other than demo, real, pr,
\* and pr mode without BASE_SHA or HEAD_SHA each end the run with an error
\* before the model call; nothing is collected, written or posted.
C4_ConfigErrorsBeforeCall ==
    /\ pc # "start" /\ ~NonEmpty(api_key) =>
          pc = "failed" /\ error = "ValueError: GENOPS_API_KEY"
    /\ pc \notin {"start", "select", "collector"} /\ NonEmpty(api_key)
       /\ mode \notin {"demo", "real", "pr"} =>
          pc = "failed" /\ error = "ValueError: Mode"
    /\ pc \notin {"start", "select"} /\ NonEmpty(api_key) /\ mode = "pr"
       /\ (~NonEmpty(base_sha) \/ ~NonEmpty(head_sha)) =>
          pc = "failed" /\ error = "ValueError: BASE_SHA and HEAD_SHA"
    /\ error \in ConfigErrors => pc = "failed" /\ NothingDone

\* C4 witness: pr mode stopped on an empty HEAD_SHA
C4_Witness ==
    /\ pc = "failed" /\ mode = "pr" /\ error = "ValueError: BASE_SHA and HEAD_SHA"
    /\ NonEmpty(base_sha) /\ head_sha = EnvSet(<<>>)

MarkerHeads ==
    {"[Error collecting git log: ", "[Error collecting git diff: ", "[Error reading file: ",
     "[Error getting diff for: ", "[Error collecting PR context: "}
Mentions(part, f) ==
    \E k \in 1..(Len(part) - Len(f) + 1) : SubSeq(part, k, k + Len(f) - 1) = f
HasMarker(heads) == \E i \in 1..Len(cParts) : cParts[i][1] \in heads
HasMarkerFor(f) ==
    \E i \in 1..Len(cParts) : cParts[i][1] \in MarkerHeads /\ Mentions(cParts[i], f)

\* C5: in both collectors every failure (an unreadable matching file, a
\* failing git log, git diff or changed-file listing) leaves an error marker
\* for it in the returned blob.
C5_EveryFailureLeavesMarker ==
    /\ cKind = "repo" =>
        /\ \A i \in 1..Len(cWorld.files) :
              cWorld.files[i][2] \in {".yml", ".yaml", ".json"}
              /\ ~cWorld.readable[cWorld.files[i]] => HasMarkerFor(cWorld.files[i])
        /\ ~cWorld.logOk => HasMarker({"[Error collecting git log: "})
        /\ ~cWorld.gdiffOk => HasMarker({"[Error collecting git diff: "})
    /\ cKind = "pr" =>
        /\ ~cWorld.listOk => HasMarker({"[Error collecting PR context: "})
        /\ cWorld.listOk =>
            /\ \A i \in 1..Len(cWorld.files) :
                  \/ cWorld.exists[cWorld.files[i]] /\ ~cWorld.readable[cWorld.files[i]]
                  \/ ~cWorld.diffOk[cWorld.files[i]]
                  => HasMarkerFor(cWorld.files[i])
            /\ ~cWorld.logOk => HasMarker({"[Error collecting PR context: "})

\* part starts with head followed by the path f
PartIs(part, head, f) ==
    Len(part) >= 1 + Len(f) /\ part[1] = head /\ SubSeq(part, 2, 1 + Len(f)) = f
Count(head, f) == Cardinality({i \in 1..Len(cParts) : PartIs(cParts[i], head, f)})
Bit(b) == IF b THEN 1 ELSE 0
\* where the diff section or diff marker of f stands
DiffIndex(f) ==
    CHOOSE i \in 1..Len(cParts) :
        PartIs(cParts[i], "### Diff for ", f) \/ PartIs(cParts[i], "[Error getting diff for: ", f)

\* C6: in collect_pr_context a file whose read or diff fails gets an error
\* marker naming it in place of the section, and every listed file, before
\* or after it, still gets its content section (when it exists) and its diff
\* section attempted, in listing order; the commit-log step still closes
\* the blob.
C6_FileFailureDoesNotAbort ==
    cKind = "pr" /\ cWorld.listOk =>
        LET fs == cWorld.files IN
        /\ \A i \in 1..Len(fs) :
            LET f == fs[i]
                ex == cWorld.exists[f]
                rd == cWorld.readable[f]
                df == cWorld.diffOk[f]
            IN  /\ Count("### File: ", f) = Bit(ex /\ rd)
                /\ Count("[Error reading file: ", f) = Bit(ex /\ ~rd)
                /\ Count("### Diff for ", f) = Bit(df)
                /\ Count("[Error getting diff for: ", f) = Bit(~df)
                /\ ex => \/ PartIs(cParts[DiffIndex(f) - 1], "### File: ", f)
                         \/ PartIs(cParts[DiffIndex(f) - 1], "[Error reading file: ", f)
        /\ \A i, j \in 1..Len(fs) : i < j => DiffIndex(fs[i]) < DiffIndex(fs[j])
        /\ cParts[Len(cParts)][1] =
              (IF cWorld.logOk THEN "### PR Commits" ELSE "[Error collecting PR context: ")
        /\ Len(cParts) = 2 + Len(fs) + Cardinality({i \in 1..Len(fs) : cWorld.exists[fs[i]]})

\* C6 witness: the first of two files failed to read and to diff, the second
\* was collected in full and the commit log closed the blob
C6_Witness ==
    /\ cKind = "pr" /\ cWorld.listOk /\ cWorld.logOk /\ Len(cWorld.files) = 2
    /\ cWorld.exists[cWorld.files[1]] /\ ~cWorld.readable[cWorld.files[1]]
    /\ ~cWorld.diffOk[cWorld.files[1]]
    /\ cWorld.exists[cWorld.files[2]] /\ cWorld.readable[cWorld.files[2]]
    /\ cWorld.diffOk[cWorld.files[2]]
    /\ Len(cParts) = 6

HasWarning ==
    \E i \in 1..Len(printed) :
        printed[i] = <<"[Warning] Missing GITHUB_TOKEN or GITHUB_REPOSITORY, skipping PR comment.">>

\* C7: a pr-mode run that finds PR_NUMBER, GITHUB_TOKEN or GITHUB_REPOSITORY
\* unavailable skips the comment, prints a warning, does not fail and has
\* written output.txt.
C7_MissingPublishInputWarns ==
    /\ mode = "pr" /\ pc = "done"
    /\ (~NonEmpty(pr_number) \/ ~NonEmpty(token) \/ ~NonEmpty(repo_name))
    => /\ comments = <<>>
       /\ HasWarning
       /\ error = "none"
       /\ outputTxt.has

\* C8: the model call is issued at most once; when it fails it is not
\* retried, the run ends with that error, and risk.json, output.txt and the
\* PR comment are never produced.
C8_CallOnceNoRetry ==
    /\ calls <= 1
    /\ error = "APIError" =>
        /\ pc = "failed" /\ calls = 1
        /\ ~response.has /\ data = NoData
        /\ ~riskJson.has /\ ~result.has /\ ~outputTxt.has
        /\ comments = <<>> /\ posted = <<>>
    /\ pc = "failed" => ~outputTxt.has /\ comments = <<>>

\* C8 witness: the call failed in pr mode
C8_Witness == pc = "failed" /\ error = "APIError" /\ mode = "pr" /\ calls = 1

NoFailingStep ==
    /\ cWorld.listOk /\ cWorld.logOk
    /\ \A i \in 1..Len(cWorld.files) :
          /\ cWorld.exists[cWorld.files[i]] => cWorld.readable[cWorld.files[i]]
          /\ cWorld.diffOk[cWorld.files[i]]
\* where the diff section of the i-th listed file must stand
DiffPos(i) == 1 + i + Cardinality({j \in 1..i : cWorld.exists[cWorld.files[j]]})

\* C9: with no failing step the blob of collect_pr_context is one
\* changed-files section listing the paths, then per path in listing order a
\* content section (only if the file exists) directly followed by its diff
\* section, then one commit-log section; one changed existing file gives
\* exactly four sections.
C9_PrBlobLayout ==
    cKind = "pr" /\ NoFailingStep =>
        LET fs == cWorld.files
            n == Len(fs)
        IN  /\ Len(cParts) = 2 + n + Cardinality({j \in 1..n : cWorld.exists[fs[j]]})
            /\ cParts[1] = <<"### Changed Files", NL>>
                           \o Flatten([i \in 1..n |-> IF i = 1 THEN fs[i] ELSE <<NL>> \o fs[i]])
            /\ \A i \in 1..n :
                  /\ PartIs(cParts[DiffPos(i)], "### Diff for ", fs[i])
                  /\ cWorld.exists[fs[i]] => PartIs(cParts[DiffPos(i) - 1], "### File: ", fs[i])
            /\ cParts[Len(cParts)][1] = "### PR Commits"
            /\ \A i \in 1..Len(cParts) : cParts[i][1] \notin MarkerHeads
            /\ n = 1 /\ cWorld.exists[fs[1]] => Len(cParts) = 4
            /\ Len(cBlob) = Len(Flatten(cParts)) + 2 * (Len(cParts) - 1)

\* C9 witness: exactly one changed, existing file gave four sections
C9_Witness ==
    /\ cKind = "pr" /\ NoFailingStep /\ Len(cWorld.files) = 1
    /\ cWorld.exists[cWorld.files[1]] /\ Len(cParts) = 4

\* C10: risk.json is written before the summary is returned, output.txt
\* holds that summary before any comment step, a comment is attempted only
\* in pr mode and at most once, and its text is the text of output.txt.
C10_PublishingOrder ==
    /\ result.has => riskJson.has
    /\ outputTxt.has => result.has /\ outputTxt.text = result.text
    /\ pc \in {"comment", "post"} => mode = "pr" /\ outputTxt.has
    /\ pr_number # EnvUnset \/ token # EnvUnset \/ repo_name # EnvUnset => mode = "pr"
    /\ comments # <<>> =>
        /\ mode = "pr" /\ outputTxt.has
        /\ Len(comments) = 1 /\ comments[1] = outputTxt.text
    /\ Len(posted) <= Len(comments)

\* C10 witness: a pr-mode run posted its one comment
C10_Witness ==
    /\ pc = "done" /\ mode = "pr" /\ Len(comments) = 1 /\ posted = comments
    /\ comments[1] = outputTxt.text
====
